---- MODULE Spec2Model ----
(***************************************************************************)
(* vspd: the payFee handler of the web API ("POST /api/v3/payfee").         *)
(*                                                                         *)
(* One ticket record lives in the ledger (db).  Every request slot r runs   *)
(* the handler: it takes the ticket record the middleware read for it,      *)
(* validates the submission, and then walks through the ledger writes, the  *)
(* broadcast, the response and the audit write.  Each call that touches     *)
(* shared state (the ledger, the chain daemon, the audit log) is one step,  *)
(* so handlers of different requests interleave between those calls.        *)
(***************************************************************************)
EXTENDS Integers, Sequences, FiniteSets, TLC

\* ---------------------------------------------------------------- bounds
NumReq == 2      \* request slots (concurrent payFee requests on the ticket)
MaxFee == 2      \* fee amounts and output values range over 0..MaxFee atoms
MaxOuts == 2     \* outputs of a submitted fee transaction
MaxFaults == 2   \* failing calls / malformed fields combined in one submission

Reqs == 1..NumReq

\* ------------------------------------------------- database.FeeTxStatus
NoFee == "none"
FeeReceieved == "received"
FeeBroadcast == "broadcast"
FeeConfirmed == "confirmed"
FeeError == "error"
FeeStatuses == {NoFee, FeeReceieved, FeeBroadcast, FeeConfirmed, FeeError}

\* ------------------------------------------------------ types.ErrorCode
ErrInternalError == "ErrInternalError"
ErrUnknownTicket == "ErrUnknownTicket"
ErrBadRequest == "ErrBadRequest"
ErrFeeAlreadyReceived == "ErrFeeAlreadyReceived"
ErrTicketCannotVote == "ErrTicketCannotVote"
ErrFeeExpired == "ErrFeeExpired"
ErrInvalidPrivKey == "ErrInvalidPrivKey"
ErrInvalidFeeTx == "ErrInvalidFeeTx"
ErrFeeTooSmall == "ErrFeeTooSmall"
ErrCannotBroadcastFee == "ErrCannotBroadcastFee"
ErrCannotBroadcastFeeUnknownOutputs == "ErrCannotBroadcastFeeUnknownOutputs"
\* The code of the success response (sendJSONResponse).
StatusOK == "ok"

\* rpc.ErrUnknownOutputs: the class of a broadcast error.
ErrUnknownOutputs == "unknownOutputs"
BroadcastResults == {"sent", ErrUnknownOutputs, "rejected"}

\* ----------------------------------------------------------- the ticket
FeeAddress == "feeaddr"
NoTx == [hex |-> FALSE, sane |-> FALSE, TxOut |-> <<>>]
TxHash(tx) == <<"txhash", tx>>

\* feeAddr.PaymentScript(): script version and script paying an address.
PaymentScript(addr) == [Version |-> 0, PkScript |-> <<"pay", addr>>]
\* wifAddr.VotingRightsScript(): the voting rights script of a voting key.
VotingRightsScript(key) == [Version |-> 0, PkScript |-> <<"vote", key>>]

\* The zero value of database.Ticket, which the handler holds for a ticket
\* the middleware did not find.
ZeroTicket ==
    [Hash |-> "", FeeAddress |-> "", FeeAmount |-> 0, FeeTxStatus |-> "",
     Confirmed |-> FALSE, VotingWIF |-> "", FeeTxHex |-> NoTx, FeeTxHash |-> <<>>,
     VoteChoices |-> "", TSpendPolicy |-> "", TreasuryPolicy |-> ""]

\* A fee transaction with one output.
TxPaying(version, script, value) ==
    [hex |-> TRUE, sane |-> TRUE,
     TxOut |-> << [Version |-> version, PkScript |-> script, Value |-> value] >>]

\* The fee transaction paying exactly `amount` to the ticket's fee address.
ExactTx(amount) ==
    TxPaying(PaymentScript(FeeAddress).Version, PaymentScript(FeeAddress).PkScript, amount)

\* The ticket records the ledger may hold when a request arrives.  A fee
\* transaction is broadcast only for a confirmed ticket, so the statuses a
\* broadcast leads to come with Confirmed.
TicketRecord(fee, st, cf) ==
    [Hash |-> "ticket", FeeAddress |-> FeeAddress, FeeAmount |-> fee,
     FeeTxStatus |-> st, Confirmed |-> cf,
     VotingWIF |-> IF st = NoFee THEN "" ELSE "k1",
     FeeTxHex |-> IF st = NoFee THEN NoTx ELSE ExactTx(fee),
     FeeTxHash |-> IF st = NoFee THEN <<>> ELSE TxHash(ExactTx(fee)),
     VoteChoices |-> "vc0", TSpendPolicy |-> "ts0", TreasuryPolicy |-> "tr0"]
LedgerTickets ==
    { TicketRecord(x[1], x[2], x[3]) :
      x \in { y \in (1..MaxFee) \X FeeStatuses \X BOOLEAN :
               y[2] \in {FeeBroadcast, FeeConfirmed, FeeError} => y[3] } }

\* ------------------------------------------------------- a submission
\* What one request brings to the handler: the request body (VotingKey,
\* FeeTx, the three preference maps) and the outcome of every call the
\* validation makes on it (the middleware's context values, the chain
\* daemon, the decoders, the preference validators).
Keys == {"k1", "k2"}
NotWIF == "notwif"
ScriptKinds ==
    { PaymentScript(FeeAddress),
      [Version |-> 1, PkScript |-> PaymentScript(FeeAddress).PkScript],
      [Version |-> 0, PkScript |-> <<"pay", "other">>] }
Outputs ==
    { [Version |-> k.Version, PkScript |-> k.PkScript, Value |-> v] :
      k \in ScriptKinds, v \in 0..MaxFee }
OutputLists == UNION { [1..n -> Outputs] : n \in 0..MaxOuts }
FeeTxs == { [hex |-> TRUE, sane |-> TRUE, TxOut |-> outs] : outs \in OutputLists }

FaultNames ==
    {"dcrdErr", "unknownTicket", "bindBody", "getRaw", "canVoteErr", "cannotVote",
     "feeExpired", "decodeWIF", "decodeFeeTx", "sanity", "feeAddr", "wifAddr",
     "decodeTicket"}
FaultSets == { F \in SUBSET FaultNames : Cardinality(F) <= MaxFaults }

Submission(F, key, out0Ver, tx, vcErr, trErr, tsErr) ==
    [dcrdErr |-> "dcrdErr" \in F,
     knownTicket |-> "unknownTicket" \notin F,
     bindOK |-> "bindBody" \notin F,
     rawOK |-> "getRaw" \notin F,
     canVote |-> IF "canVoteErr" \in F THEN "err"
                 ELSE IF "cannotVote" \in F THEN "no" ELSE "yes",
     feeExpired |-> "feeExpired" \in F,
     VotingKey |-> IF "decodeWIF" \in F THEN NotWIF ELSE key,
     FeeTx |-> IF "decodeFeeTx" \in F THEN [tx EXCEPT !.hex = FALSE]
               ELSE IF "sanity" \in F THEN [tx EXCEPT !.sane = FALSE] ELSE tx,
     feeAddrOK |-> "feeAddr" \notin F,
     wifAddrOK |-> "wifAddr" \notin F,
     ticketHexOK |-> "decodeTicket" \notin F,
     out0Ver |-> out0Ver,
     VoteChoices |-> "vcReq", vcErr |-> vcErr,
     TreasuryPolicy |-> "trReq", trErr |-> trErr,
     TSpendPolicy |-> "tsReq", tsErr |-> tsErr]

\* Submissions against a ticket with minimum fee `fee`: every combination of
\* up to MaxFaults faults around a paying transaction, every fee transaction,
\* and every combination of invalid preference maps.
FaultSubmissions(fee) ==
    { Submission(F, key, ver, ExactTx(fee), FALSE, FALSE, FALSE) :
      F \in FaultSets, key \in Keys, ver \in {0, 1} }
FeeSubmissions ==
    { Submission({}, key, 0, tx, FALSE, FALSE, FALSE) : key \in Keys, tx \in FeeTxs }
MapSubmissions(fee) ==
    { Submission(F, key, 0, ExactTx(fee), vc, tr, ts) :
      F \in {{}, {"getRaw"}}, key \in Keys,
      vc \in BOOLEAN, tr \in BOOLEAN, ts \in BOOLEAN }
Submissions(fee) == FaultSubmissions(fee) \cup FeeSubmissions \cup MapSubmissions(fee)

\* The valid submissions a client repeats for one ticket; the concurrent
\* specification draws from these.
Resubmissions(fee) ==
    { Submission({}, "k1", 0, ExactTx(fee), vc, FALSE, FALSE) : vc \in BOOLEAN }

\* reqBytes: the raw request body.
reqBytes(in) ==
    <<in.VotingKey, in.FeeTx, in.VoteChoices, in.vcErr, in.TreasuryPolicy, in.trErr,
      in.TSpendPolicy, in.tsErr>>

\* ------------------------------------------------------ the validation
\* The fee paid: the value of the first output whose script version and
\* script both equal the wanted ones, 0 when there is none (the loop over
\* feeTx.TxOut, which breaks at the first match).
RECURSIVE feePaidFrom(_, _, _)
feePaidFrom(outs, i, want) ==
    IF i > Len(outs) THEN 0
    ELSE IF outs[i].Version = want.Version /\ outs[i].PkScript = want.PkScript
         THEN outs[i].Value
         ELSE feePaidFrom(outs, i + 1, want)
\* A scan that compares the scripts and not their versions.
feePaidAnyVersion(t, in) ==
    LET outs == in.FeeTx.TxOut
        hits == { i \in 1..Len(outs) : outs[i].PkScript = PaymentScript(t.FeeAddress).PkScript }
    IN  IF hits = {} THEN 0
        ELSE outs[CHOOSE i \in hits : \A j \in hits : i <= j].Value
feePaid(t, in) == feePaidFrom(in.FeeTx.TxOut, 1, PaymentScript(t.FeeAddress))

\* Output 0 of the ticket transaction the chain daemon returned: the
\* ticket's voting rights output (bought for key k1).
TicketOut0(in) == [Version |-> in.out0Ver, PkScript |-> VotingRightsScript("k1").PkScript]

\* A call to the chain daemon or to the ledger, with what it returned.
Call(name, result) == [call |-> name, result |-> result]

Check(name, fails, code, msg, call) ==
    [check |-> name, fails |-> fails, code |-> code, msg |-> msg, call |-> call]

\* The context values, the request body and the early response.
ContextChecks(t, in) ==
    << Check("dcrdErr", in.dcrdErr, ErrInternalError, <<>>, ""),
       Check("knownTicket", ~in.knownTicket, ErrUnknownTicket, <<>>, ""),
       Check("BindBody", ~in.bindOK, ErrBadRequest, <<"bind error">>, "") >>
\* An early response that forgets the broadcast status.
AlreadyReceivedCheckNoBroadcast(t, in) ==
    << Check("feeAlreadyReceived",
             t.FeeTxStatus \in {FeeReceieved, FeeConfirmed},
             ErrFeeAlreadyReceived, <<>>, "") >>
AlreadyReceivedCheck(t, in) ==
    << Check("feeAlreadyReceived",
             t.FeeTxStatus \in {FeeReceieved, FeeBroadcast, FeeConfirmed},
             ErrFeeAlreadyReceived, <<>>, "") >>
\* The ticket on chain, and the fee deadline.
ChainChecks(t, in) ==
    << Check("GetRawTransaction", ~in.rawOK, ErrInternalError, <<>>, "GetRawTransaction"),
       Check("canTicketVoteErr", in.canVote = "err", ErrInternalError, <<>>, "canTicketVote"),
       Check("canTicketVote", in.canVote = "no", ErrTicketCannotVote, <<>>, "") >>
FeeExpiredCheck(t, in) ==
    << Check("FeeExpired", in.feeExpired, ErrFeeExpired, <<>>, "") >>
\* The voting key, then the three preference maps (which never reject).
KeyChecks(t, in) ==
    << Check("DecodeWIF", in.VotingKey = NotWIF, ErrInvalidPrivKey, <<>>, ""),
       Check("validConsensusVoteChoices", FALSE, "", <<>>, ""),
       Check("validTreasuryPolicy", FALSE, "", <<>>, ""),
       Check("validTSpendPolicy", FALSE, "", <<>>, "") >>
\* The fee transaction and the payment it makes.
FeeTxChecks(t, in) ==
    << Check("decodeFeeTx", ~in.FeeTx.hex, ErrInvalidFeeTx, <<>>, ""),
       Check("CheckTransactionSanity", ~in.FeeTx.sane, ErrInvalidFeeTx, <<>>, ""),
       Check("DecodeAddress", ~in.feeAddrOK, ErrInternalError, <<>>, "") >>
FeeFoundCheck(t, in) ==
    << Check("feeFound", feePaid(t, in) = 0, ErrInvalidFeeTx,
             <<"feetx did not include any payments for fee address", t.FeeAddress>>, "") >>
\* An amount check that wants more than the minimum fee.
FeeAmountCheckStrict(t, in) ==
    << Check("feeAmount", feePaid(t, in) <= t.FeeAmount, ErrFeeTooSmall, <<>>, "") >>
FeeAmountCheck(t, in) ==
    << Check("feeAmount", feePaid(t, in) < t.FeeAmount, ErrFeeTooSmall, <<>>, "") >>
\* A binding check that compares the scripts and not their versions.
BindingChecksNoVersion(t, in) ==
    << Check("NewAddressPubKeyHash", ~in.wifAddrOK, ErrInvalidPrivKey, <<>>, ""),
       Check("decodeTicket", ~in.ticketHexOK, ErrInternalError, <<>>, ""),
       Check("votingAddress",
             TicketOut0(in).PkScript # VotingRightsScript(in.VotingKey).PkScript,
             ErrInvalidPrivKey, <<"voting address does not match provided private key">>, "") >>
\* The voting key against the ticket's voting rights output.
BindingChecks(t, in) ==
    << Check("NewAddressPubKeyHash", ~in.wifAddrOK, ErrInvalidPrivKey, <<>>, ""),
       Check("decodeTicket", ~in.ticketHexOK, ErrInternalError, <<>>, ""),
       Check("votingAddress",
             \/ TicketOut0(in).Version # VotingRightsScript(in.VotingKey).Version
             \/ TicketOut0(in).PkScript # VotingRightsScript(in.VotingKey).PkScript,
             ErrInvalidPrivKey, <<"voting address does not match provided private key">>, "") >>

\* A handler that decodes the voting key before it looks at the fee deadline.
PipelineKeyFirst(t, in) ==
    ContextChecks(t, in) \o AlreadyReceivedCheck(t, in) \o ChainChecks(t, in)
      \o KeyChecks(t, in) \o FeeExpiredCheck(t, in) \o FeeTxChecks(t, in)
      \o FeeFoundCheck(t, in) \o FeeAmountCheck(t, in) \o BindingChecks(t, in)

\* The checks of payFee in the order the handler makes them.
Pipeline(t, in) ==
    ContextChecks(t, in) \o AlreadyReceivedCheck(t, in) \o ChainChecks(t, in)
      \o FeeExpiredCheck(t, in) \o KeyChecks(t, in) \o FeeTxChecks(t, in)
      \o FeeFoundCheck(t, in) \o FeeAmountCheck(t, in) \o BindingChecks(t, in)

\* The index of the first failing check from i on, 0 when none fails: each
\* failing check sends its error and returns.
RECURSIVE FirstFailing(_, _)
FirstFailing(p, i) ==
    IF i > Len(p) THEN 0
    ELSE IF p[i].fails THEN i
    ELSE FirstFailing(p, i + 1)

\* What the validation part of payFee does with ticket t and submission in:
\* whether it passed, the error it sent, the checks it made and the calls to
\* the chain daemon it made.
Validate(t, in) ==
    LET p == Pipeline(t, in)
        k == FirstFailing(p, 1)
        n == IF k = 0 THEN Len(p) ELSE k
        made == SubSeq(p, 1, n)
        IsCall(c) == c.call # ""
        called == SelectSeq(made, IsCall)
    IN  [ok |-> k = 0,
         code |-> IF k = 0 THEN "" ELSE p[k].code,
         msg |-> IF k = 0 THEN <<>> ELSE p[k].msg,
         checks |-> [i \in 1..n |-> made[i].check],
         calls |-> [i \in 1..Len(called) |->
                      Call(called[i].call, IF called[i].fails THEN "error" ELSE "ok")]]

\* ------------------------------------------------- the statistics cache
NumReaders == 2
Readers == 1..NumReaders

\* The counts a recomputation may find.
Counts == {0, 1}

\* The fields of the cache's data, in the order the writer assigns them.
StatsFields ==
    << "Voting", "Voted", "TotalVotingWallets", "VotingWalletsOnline",
       "Expired", "Missed", "BlockHeight", "NetworkProportion" >>

\* The statistics of a ledger with e expired and m missed tickets.
CachedStats(e, m) ==
    [Voting |-> m, Voted |-> e + m, TotalVotingWallets |-> e + 1,
     VotingWalletsOnline |-> e, Expired |-> e, Missed |-> m,
     BlockHeight |-> e + 2 * m, NetworkProportion |-> m]
Snapshots == { CachedStats(e, m) : e \in Counts, m \in Counts }

\* ------------------------------------------------------------ vspadmin
configFilename == "vspd.conf"
dbFilename == "vspd.db"

\* A file that does not exist, and a file a failed write left behind.
Absent == "absent"
Partial == "partial"

\* Extended keys as a command line may give them: public keys of the
\* selected network, a public key of another network, a private key of the
\* selected network, and a string that is no key.
XPubs == {"xpub0", "xpub1"}
FeeKeys == XPubs \cup {"xpubOtherNet", "xprv", "notakey"}

\* A database file: the fee key in use and the keys retired before it.
Database(feeXPub, retired) == [feeXPub |-> feeXPub, retired |-> retired]
Databases == { Database(k, R) : k \in XPubs, R \in SUBSET XPubs }
\* No database file, and the file a failed database.CreateNew left behind.
NoDatabase == Database(Absent, {})
PartialDatabase == Database(Partial, {})
\* The config file a run of vspd left, and the one writeconfig writes.
ConfigFiles == {"edited", "defaults"}

Nil == "nil"

\* fileExists: false only when os.Stat reports that the file does not exist.
fileExists(present, statErr) == ~(~present /\ statErr = Nil)

\* A validation that only parses the key.
validatePubkeyParsed(key) ==
    IF key \notin XPubs \cup {"xprv"}
    THEN "failed to parse feexpub"
    ELSE Nil
\* validatePubkey: the key parses for the network and is not private.
validatePubkey(key) ==
    IF key \notin XPubs \cup {"xprv"}
    THEN "failed to parse feexpub"
    ELSE IF key = "xprv"
         THEN "feexpub is a private key, should be public"
         ELSE Nil

\* The files of a home directory, the database and config file with their
\* directories.
FileSystems ==
    { f \in [homeDir : BOOLEAN, dataDir : BOOLEAN,
             dbFile : {NoDatabase, Database("xpub0", {})},
             configFile : {Absent, "edited"}] :
        /\ f.dataDir => f.homeDir
        /\ f.dbFile # NoDatabase => f.dataDir
        /\ f.configFile # Absent => f.homeDir }

\* What a run of vspadmin did: the command, its key argument, the calls it
\* made in order, and the error it returned.
Run(cmd, key, made, err) == [cmd |-> cmd, key |-> key, calls |-> made, err |-> err]
NoRun == Run("", "", <<>>, Nil)

\* ------------------------------------------------- the voting wallets
NumWallets == 2
Wallets == 1..NumWallets

\* The tickets the coordinator works on, and the voting configurations (the
\* voting key with the preference maps) a ledger or a wallet may hold.
Tickets == {"t1", "t2"}
Configs == {"cfgA", "cfgB"}

\* The ledger's record of a ticket for the coordinator: its configuration
\* and whether its outcome is still open.
Ledgers == [Tickets -> [config : Configs, active : BOOLEAN]]

\* The pushes of one reconcileAll: every wallet for every active ticket.
RECURSIVE PushesTo(_, _)
PushesTo(t, w) ==
    IF w > NumWallets THEN <<>> ELSE << <<t, w>> >> \o PushesTo(t, w + 1)
Pushes(led) ==
    (IF led["t1"].active THEN PushesTo("t1", 1) ELSE <<>>)
        \o (IF led["t2"].active THEN PushesTo("t2", 1) ELSE <<>>)

\* ------------------------------------------------------------ the state
VARIABLES
    db,           \* the ledger's record of the ticket
    pc,           \* pc[r]: where request r's handler stands
    ctxTicket,    \* ctxTicket[r]: the ticket record the middleware put in the context
    ticket,       \* ticket[r]: the handler's copy of the ticket record
    request,      \* request[r]: the submission the handler was given
    checked,      \* checked[r]: the checks the handler made, in order
    calls,        \* calls[r]: the chain daemon and ledger calls it made, in order
    resp,         \* resp[r]: the responses it sent to the client, in order
    broadcasts,   \* fee transactions the chain daemon accepted for broadcast
    voteChanges   \* the audit log of vote change records

VARIABLES
    cache,        \* the data of the statistics cache
    cacheMtx,     \* TRUE while the writer holds the cache's lock
    update,       \* the writer: the data it publishes and the field it is at
    infoPc,       \* infoPc[q]: where vspinfo request q's handler stands
    cachedStats,  \* cachedStats[q]: the handler's copy of the cache's data
    infoResp      \* infoResp[q]: the responses it sent, in order

VARIABLES
    files,        \* the home directory vspadmin works on
    admin         \* the last run of vspadmin

VARIABLES
    ledger,       \* the ledger's configuration and activity of every ticket
    replicas,     \* replicas[w][t]: the configuration wallet w reports for t
    reachable,    \* reachable[w]: whether wallet w answers
    reconciler    \* the state of the coordinator's reconcileAll

payFeeVars == <<db, pc, ctxTicket, ticket, request, checked, calls, resp, broadcasts, voteChanges>>
cacheVars == <<cache, cacheMtx, update, infoPc, cachedStats, infoResp>>
adminVars == <<files, admin>>
walletVars == <<ledger, replicas, reachable, reconciler>>
vars == <<payFeeVars, cacheVars, adminVars, walletVars>>

\* What the handlers of one part of the server leave alone.
notPayFee == <<cacheVars, adminVars, walletVars>>
notCache == <<payFeeVars, adminVars, walletVars>>
notAdmin == <<payFeeVars, cacheVars, walletVars>>
notWallets == <<payFeeVars, cacheVars, adminVars>>

NoSubmission == <<>>

\* sendError / sendErrorWithMsg and sendJSONResponse: the response bodies.
ErrorResponse(code, msg) == [code |-> code, msg |-> msg, Request |-> <<>>]
PayFeeResponse(in) == [code |-> StatusOK, msg |-> <<>>, Request |-> <<reqBytes(in)>>]

\* database.UpdateTicket: the record stored under the ticket's hash is
\* replaced by the record given.
UpdateTicket(stored, t) == t

\* A handler that marks the fee confirmed as soon as it accepts it.
SetFeeTxConfirmed(t, in) ==
    [t EXCEPT !.VotingWIF = in.VotingKey,
              !.FeeTxHex = in.FeeTx,
              !.FeeTxHash = TxHash(in.FeeTx),
              !.FeeTxStatus = FeeConfirmed,
              !.VoteChoices = IF ~in.vcErr THEN in.VoteChoices ELSE @,
              !.TSpendPolicy = IF ~in.tsErr THEN in.TSpendPolicy ELSE @,
              !.TreasuryPolicy = IF ~in.trErr THEN in.TreasuryPolicy ELSE @]

\* A handler that drops all three preference maps when one is invalid.
SetFeeTxAllOrNothing(t, in) ==
    LET valid == ~in.vcErr /\ ~in.tsErr /\ ~in.trErr
    IN  [t EXCEPT !.VotingWIF = in.VotingKey,
                  !.FeeTxHex = in.FeeTx,
                  !.FeeTxHash = TxHash(in.FeeTx),
                  !.FeeTxStatus = FeeReceieved,
                  !.VoteChoices = IF valid THEN in.VoteChoices ELSE @,
                  !.TSpendPolicy = IF valid THEN in.TSpendPolicy ELSE @,
                  !.TreasuryPolicy = IF valid THEN in.TreasuryPolicy ELSE @]

\* The record the handler builds once the submission passed every check.
SetFeeTx(t, in) ==
    [t EXCEPT !.VotingWIF = in.VotingKey,
              !.FeeTxHex = in.FeeTx,
              !.FeeTxHash = TxHash(in.FeeTx),
              !.FeeTxStatus = FeeReceieved,
              !.VoteChoices = IF ~in.vcErr THEN in.VoteChoices ELSE @,
              !.TSpendPolicy = IF ~in.tsErr THEN in.TSpendPolicy ELSE @,
              !.TreasuryPolicy = IF ~in.trErr THEN in.TreasuryPolicy ELSE @]

\* The writer at rest.
NoUpdate == [data |-> CachedStats(0, 0), field |-> 0]

\* The cache as the server starts with it, and no vspinfo request yet.
CacheInit ==
    /\ cache = CachedStats(0, 0)
    /\ cacheMtx = FALSE
    /\ update = NoUpdate
    /\ infoPc = [q \in Readers |-> "idle"]
    /\ cachedStats = [q \in Readers |-> CachedStats(0, 0)]
    /\ infoResp = [q \in Readers |-> <<>>]

\* A home directory with a database and a config file, and no run yet.
AdminIdle ==
    /\ files = [homeDir |-> TRUE, dataDir |-> TRUE,
                dbFile |-> Database("xpub0", {}), configFile |-> "edited"]
    /\ admin = NoRun

\* The coordinator at rest.
Reconciler(state, todo, skipped, missed) ==
    [state |-> state, todo |-> todo, skipped |-> skipped, missed |-> missed]
WalletsIdle ==
    /\ ledger = [t \in Tickets |-> [config |-> "cfgA", active |-> TRUE]]
    /\ replicas = [w \in Wallets |-> [t \in Tickets |-> "cfgA"]]
    /\ reachable = [w \in Wallets |-> TRUE]
    /\ reconciler = Reconciler("idle", <<>>, {}, {})

Init ==
    /\ CacheInit
    /\ AdminIdle
    /\ WalletsIdle
    /\ db \in LedgerTickets
    /\ pc = [r \in Reqs |-> "idle"]
    /\ ctxTicket = [r \in Reqs |-> ZeroTicket]
    /\ ticket = [r \in Reqs |-> ZeroTicket]
    /\ request = [r \in Reqs |-> NoSubmission]
    /\ checked = [r \in Reqs |-> <<>>]
    /\ calls = [r \in Reqs |-> <<>>]
    /\ resp = [r \in Reqs |-> <<>>]
    /\ broadcasts = 0
    /\ voteChanges = <<>>

\* ---------------------------------------------------------- the handler
\* A handler that stores the voting key before it has compared it with the
\* ticket's voting rights output.
payFeeStoresKeyFirst(r, in) ==
    /\ pc[r] = "idle"
    /\ LET t == IF in.knownTicket THEN db ELSE ZeroTicket
           v == Validate(t, in)
       IN  /\ ctxTicket' = [ctxTicket EXCEPT ![r] = t]
           /\ request' = [request EXCEPT ![r] = in]
           /\ checked' = [checked EXCEPT ![r] = v.checks]
           /\ calls' = [calls EXCEPT ![r] = v.calls]
           /\ db' = IF ~v.ok /\ v.checks[Len(v.checks)] = "votingAddress"
                    THEN [db EXCEPT !.VotingWIF = in.VotingKey]
                    ELSE db
           /\ IF v.ok
              THEN /\ ticket' = [ticket EXCEPT ![r] = SetFeeTx(t, in)]
                   /\ resp' = resp
                   /\ pc' = [pc EXCEPT ![r] = "UpdateTicketReceived"]
              ELSE /\ ticket' = [ticket EXCEPT ![r] = t]
                   /\ resp' = [resp EXCEPT ![r] = Append(@, ErrorResponse(v.code, v.msg))]
                   /\ pc' = [pc EXCEPT ![r] = "done"]
    /\ UNCHANGED <<broadcasts, voteChanges, notPayFee>>

\* The handler takes the ticket the middleware read and validates the
\* submission; a failing check sends its error and ends the handler, and a
\* passing submission is copied into the handler's ticket record.
payFee(r, in) ==
    /\ pc[r] = "idle"
    /\ LET t == IF in.knownTicket THEN db ELSE ZeroTicket
           v == Validate(t, in)
       IN  /\ ctxTicket' = [ctxTicket EXCEPT ![r] = t]
           /\ request' = [request EXCEPT ![r] = in]
           /\ checked' = [checked EXCEPT ![r] = v.checks]
           /\ calls' = [calls EXCEPT ![r] = v.calls]
           /\ IF v.ok
              THEN /\ ticket' = [ticket EXCEPT ![r] = SetFeeTx(t, in)]
                   /\ resp' = resp
                   /\ pc' = [pc EXCEPT ![r] = "UpdateTicketReceived"]
              ELSE /\ ticket' = [ticket EXCEPT ![r] = t]
                   /\ resp' = [resp EXCEPT ![r] = Append(@, ErrorResponse(v.code, v.msg))]
                   /\ pc' = [pc EXCEPT ![r] = "done"]
    /\ UNCHANGED <<db, broadcasts, voteChanges, notPayFee>>

\* A handler that goes on after a failed ledger write.
UpdateTicketReceivedUnchecked(r) ==
    /\ pc[r] = "UpdateTicketReceived"
    /\ \E ok \in BOOLEAN :
         /\ db' = IF ok THEN UpdateTicket(db, ticket[r]) ELSE db
         /\ calls' = [calls EXCEPT ![r] = Append(@, Call("UpdateTicket",
                                                   IF ok THEN "ok" ELSE "error"))]
    /\ pc' = [pc EXCEPT ![r] = IF ticket[r].Confirmed
                               THEN "SendRawTransaction"
                               ELSE "sendJSONResponse"]
    /\ UNCHANGED <<ctxTicket, ticket, request, checked, resp, broadcasts, voteChanges,
                 notPayFee>>

\* A handler that broadcasts whether or not the ticket is confirmed.
UpdateTicketReceivedUngated(r) ==
    /\ pc[r] = "UpdateTicketReceived"
    /\ \E ok \in BOOLEAN :
         IF ok
         THEN /\ db' = UpdateTicket(db, ticket[r])
              /\ calls' = [calls EXCEPT ![r] = Append(@, Call("UpdateTicket", "ok"))]
              /\ resp' = resp
              /\ pc' = [pc EXCEPT ![r] = "SendRawTransaction"]
         ELSE /\ db' = db
              /\ calls' = [calls EXCEPT ![r] = Append(@, Call("UpdateTicket", "error"))]
              /\ resp' = [resp EXCEPT ![r] = Append(@, ErrorResponse(ErrInternalError, <<>>))]
              /\ pc' = [pc EXCEPT ![r] = "done"]
    /\ UNCHANGED <<ctxTicket, ticket, request, checked, broadcasts, voteChanges,
                 notPayFee>>

\* db.UpdateTicket(ticket) with FeeTxStatus = FeeReceieved.
UpdateTicketReceived(r) ==
    /\ pc[r] = "UpdateTicketReceived"
    /\ \E ok \in BOOLEAN :
         IF ok
         THEN /\ db' = UpdateTicket(db, ticket[r])
              /\ calls' = [calls EXCEPT ![r] = Append(@, Call("UpdateTicket", "ok"))]
              /\ resp' = resp
              /\ pc' = [pc EXCEPT ![r] = IF ticket[r].Confirmed
                                         THEN "SendRawTransaction"
                                         ELSE "sendJSONResponse"]
         ELSE /\ db' = db
              /\ calls' = [calls EXCEPT ![r] = Append(@, Call("UpdateTicket", "error"))]
              /\ resp' = [resp EXCEPT ![r] = Append(@, ErrorResponse(ErrInternalError, <<>>))]
              /\ pc' = [pc EXCEPT ![r] = "done"]
    /\ UNCHANGED <<ctxTicket, ticket, request, checked, broadcasts, voteChanges,
                 notPayFee>>

\* A handler that keeps the status it stored once the broadcast went through.
BroadcastStatusKept(res) == IF res = "sent" THEN FeeReceieved ELSE FeeError
\* The FeeTxStatus the handler sets after the broadcast call returned res.
BroadcastStatus(res) == IF res = "sent" THEN FeeBroadcast ELSE FeeError

\* A handler that answers every broadcast failure with the generic code.
BroadcastErrorCodeGeneric(res) == ErrCannotBroadcastFee
\* The error sent for a failed broadcast: explicit when the error of the
\* chain daemon contains rpc.ErrUnknownOutputs.
BroadcastErrorCode(res) ==
    IF res = ErrUnknownOutputs
    THEN ErrCannotBroadcastFeeUnknownOutputs
    ELSE ErrCannotBroadcastFee

\* dcrdClient.SendRawTransaction(request.FeeTx) for a confirmed ticket; a
\* failure sets FeeError in the handler's record and sends the error.
SendRawTransaction(r) ==
    /\ pc[r] = "SendRawTransaction"
    /\ \E res \in BroadcastResults :
         /\ calls' = [calls EXCEPT ![r] = Append(@, Call("SendRawTransaction",
                                                   IF res = "sent" THEN "ok" ELSE res))]
         /\ ticket' = [ticket EXCEPT ![r].FeeTxStatus = BroadcastStatus(res)]
         /\ IF res = "sent"
            THEN /\ broadcasts' = broadcasts + 1
                 /\ resp' = resp
                 /\ pc' = [pc EXCEPT ![r] = "UpdateTicketBroadcast"]
            ELSE /\ broadcasts' = broadcasts
                 /\ resp' = [resp EXCEPT ![r] =
                               Append(@, ErrorResponse(BroadcastErrorCode(res), <<>>))]
                 /\ pc' = [pc EXCEPT ![r] = "UpdateTicketError"]
    /\ UNCHANGED <<db, ctxTicket, request, checked, voteChanges, notPayFee>>

\* A handler that also stores an audit record on the broadcast failure path.
UpdateTicketErrorAudited(r) ==
    /\ pc[r] = "UpdateTicketError"
    /\ \E ok \in BOOLEAN :
         /\ db' = IF ok THEN UpdateTicket(db, ticket[r]) ELSE db
         /\ calls' = [calls EXCEPT ![r] = Append(@, Call("UpdateTicket",
                                                   IF ok THEN "ok" ELSE "error"))]
    /\ voteChanges' = Append(voteChanges,
                             [Hash |-> ticket[r].Hash,
                              Request |-> reqBytes(request[r]),
                              Response |-> resp[r][Len(resp[r])]])
    /\ pc' = [pc EXCEPT ![r] = "done"]
    /\ UNCHANGED <<ctxTicket, ticket, request, checked, resp, broadcasts, notPayFee>>

\* A handler that reports the failed write of FeeError to the client too.
UpdateTicketErrorReported(r) ==
    /\ pc[r] = "UpdateTicketError"
    /\ \E ok \in BOOLEAN :
         /\ db' = IF ok THEN UpdateTicket(db, ticket[r]) ELSE db
         /\ calls' = [calls EXCEPT ![r] = Append(@, Call("UpdateTicket",
                                                   IF ok THEN "ok" ELSE "error"))]
         /\ resp' = IF ok THEN resp
                    ELSE [resp EXCEPT ![r] = Append(@, ErrorResponse(ErrInternalError, <<>>))]
    /\ pc' = [pc EXCEPT ![r] = "done"]
    /\ UNCHANGED <<ctxTicket, ticket, request, checked, broadcasts, voteChanges,
                 notPayFee>>

\* db.UpdateTicket(ticket) with FeeTxStatus = FeeError; a failure is logged.
UpdateTicketError(r) ==
    /\ pc[r] = "UpdateTicketError"
    /\ \E ok \in BOOLEAN :
         /\ db' = IF ok THEN UpdateTicket(db, ticket[r]) ELSE db
         /\ calls' = [calls EXCEPT ![r] = Append(@, Call("UpdateTicket",
                                                   IF ok THEN "ok" ELSE "error"))]
    /\ pc' = [pc EXCEPT ![r] = "done"]
    /\ UNCHANGED <<ctxTicket, ticket, request, checked, resp, broadcasts, voteChanges,
                 notPayFee>>

\* A handler that sends the success response without storing FeeBroadcast.
UpdateTicketBroadcastSkipped(r) ==
    /\ pc[r] = "UpdateTicketBroadcast"
    /\ \E ok \in BOOLEAN :
         IF ok
         THEN /\ db' = db
              /\ calls' = [calls EXCEPT ![r] = Append(@, Call("UpdateTicket", "ok"))]
              /\ resp' = resp
              /\ pc' = [pc EXCEPT ![r] = "sendJSONResponse"]
         ELSE /\ db' = db
              /\ calls' = [calls EXCEPT ![r] = Append(@, Call("UpdateTicket", "error"))]
              /\ resp' = [resp EXCEPT ![r] = Append(@, ErrorResponse(ErrInternalError, <<>>))]
              /\ pc' = [pc EXCEPT ![r] = "done"]
    /\ UNCHANGED <<ctxTicket, ticket, request, checked, broadcasts, voteChanges,
                 notPayFee>>

\* db.UpdateTicket(ticket) with FeeTxStatus = FeeBroadcast.
UpdateTicketBroadcast(r) ==
    /\ pc[r] = "UpdateTicketBroadcast"
    /\ \E ok \in BOOLEAN :
         IF ok
         THEN /\ db' = UpdateTicket(db, ticket[r])
              /\ calls' = [calls EXCEPT ![r] = Append(@, Call("UpdateTicket", "ok"))]
              /\ resp' = resp
              /\ pc' = [pc EXCEPT ![r] = "sendJSONResponse"]
         ELSE /\ db' = db
              /\ calls' = [calls EXCEPT ![r] = Append(@, Call("UpdateTicket", "error"))]
              /\ resp' = [resp EXCEPT ![r] = Append(@, ErrorResponse(ErrInternalError, <<>>))]
              /\ pc' = [pc EXCEPT ![r] = "done"]
    /\ UNCHANGED <<ctxTicket, ticket, request, checked, broadcasts, voteChanges,
                 notPayFee>>

\* The success response, echoing the request bytes.
sendJSONResponse(r) ==
    /\ pc[r] = "sendJSONResponse"
    /\ resp' = [resp EXCEPT ![r] = Append(@, PayFeeResponse(request[r]))]
    /\ pc' = [pc EXCEPT ![r] = "SaveVoteChange"]
    /\ UNCHANGED <<db, ctxTicket, ticket, request, checked, calls, broadcasts, voteChanges,
                 notPayFee>>

\* A handler that answers a failed audit write with an internal error.
SaveVoteChangeFatal(r) ==
    /\ pc[r] = "SaveVoteChange"
    /\ \E ok \in BOOLEAN :
         /\ voteChanges' = IF ok
                           THEN Append(voteChanges,
                                       [Hash |-> ticket[r].Hash,
                                        Request |-> reqBytes(request[r]),
                                        Response |-> resp[r][Len(resp[r])]])
                           ELSE voteChanges
         /\ calls' = [calls EXCEPT ![r] = Append(@, Call("SaveVoteChange",
                                                   IF ok THEN "ok" ELSE "error"))]
         /\ resp' = IF ok THEN resp
                    ELSE [resp EXCEPT ![r] = Append(@, ErrorResponse(ErrInternalError, <<>>))]
    /\ pc' = [pc EXCEPT ![r] = "done"]
    /\ UNCHANGED <<db, ctxTicket, ticket, request, checked, broadcasts, notPayFee>>

\* db.SaveVoteChange: the audit record of the request and the response sent;
\* a failure is logged.
SaveVoteChange(r) ==
    /\ pc[r] = "SaveVoteChange"
    /\ \E ok \in BOOLEAN :
         /\ voteChanges' = IF ok
                           THEN Append(voteChanges,
                                       [Hash |-> ticket[r].Hash,
                                        Request |-> reqBytes(request[r]),
                                        Response |-> resp[r][Len(resp[r])]])
                           ELSE voteChanges
         /\ calls' = [calls EXCEPT ![r] = Append(@, Call("SaveVoteChange",
                                                   IF ok THEN "ok" ELSE "error"))]
    /\ pc' = [pc EXCEPT ![r] = "done"]
    /\ UNCHANGED <<db, ctxTicket, ticket, request, checked, resp, broadcasts, notPayFee>>

\* The steps of a handler after the validation.
Proceed(r) ==
    \/ UpdateTicketReceived(r)
    \/ SendRawTransaction(r)
    \/ UpdateTicketError(r)
    \/ UpdateTicketBroadcast(r)
    \/ sendJSONResponse(r)
    \/ SaveVoteChange(r)

\* Concurrent requests for the ticket, each a valid submission.
Next ==
    \E r \in Reqs :
        \/ /\ pc[r] = "idle"
           /\ \E in \in Resubmissions(db.FeeAmount) : payFee(r, in)
        \/ Proceed(r)

Spec == Init /\ [][Next]_vars

\* One request, any submission, against any ticket record.
PipelineNext ==
    \/ /\ pc[1] = "idle"
       /\ \E in \in Submissions(db.FeeAmount) : payFee(1, in)
    \/ Proceed(1)

PipelineSpec == Init /\ [][PipelineNext]_vars

\* ------------------------------------------------------------- vspinfo
\* The recomputation has its new statistics and takes the cache's lock to
\* publish them; it is the only writer.
updateLock ==
    /\ update.field = 0
    /\ ~cacheMtx
    /\ \E new \in Snapshots : update' = [data |-> new, field |-> 1]
    /\ cacheMtx' = TRUE
    /\ UNCHANGED <<cache, infoPc, cachedStats, infoResp, notCache>>

\* The writer assigns the next field of the cache's data under the lock.
updateField ==
    /\ update.field \in 1..Len(StatsFields)
    /\ cache' = [cache EXCEPT ![StatsFields[update.field]] =
                                 update.data[StatsFields[update.field]]]
    /\ update' = [update EXCEPT !.field = @ + 1]
    /\ UNCHANGED <<cacheMtx, infoPc, cachedStats, infoResp, notCache>>

\* The writer has assigned every field and releases the lock.
updateUnlock ==
    /\ update.field = Len(StatsFields) + 1
    /\ update' = NoUpdate
    /\ cacheMtx' = FALSE
    /\ UNCHANGED <<cache, infoPc, cachedStats, infoResp, notCache>>

\* cache.getData(): a copy of the cache's data, taken under the lock.
getData(q) ==
    /\ infoPc[q] = "idle"
    /\ ~cacheMtx
    /\ cachedStats' = [cachedStats EXCEPT ![q] = cache]
    /\ infoPc' = [infoPc EXCEPT ![q] = "sendJSONResponse"]
    /\ UNCHANGED <<cache, cacheMtx, update, infoResp, notCache>>

\* types.VspInfoResponse as the handler fills it from the statistics.
VspInfoResponse(stats) ==
    [Voting |-> stats.Voting,
     Voted |-> stats.Voted,
     TotalVotingWallets |-> stats.TotalVotingWallets,
     VotingWalletsOnline |-> stats.VotingWalletsOnline,
     Revoked |-> stats.Expired + stats.Missed,
     Expired |-> stats.Expired,
     Missed |-> stats.Missed,
     BlockHeight |-> stats.BlockHeight,
     NetworkProportion |-> stats.NetworkProportion]

\* A handler that fills the response from the cache's fields themselves.
vspInfoFromCache(q) ==
    /\ infoPc[q] = "sendJSONResponse"
    /\ infoResp' = [infoResp EXCEPT ![q] = Append(@, VspInfoResponse(cache))]
    /\ infoPc' = [infoPc EXCEPT ![q] = "done"]
    /\ UNCHANGED <<cache, cacheMtx, update, cachedStats, notCache>>

\* The handler sends the response filled from its copy of the statistics.
vspInfo(q) ==
    /\ infoPc[q] = "sendJSONResponse"
    /\ infoResp' = [infoResp EXCEPT ![q] = Append(@, VspInfoResponse(cachedStats[q]))]
    /\ infoPc' = [infoPc EXCEPT ![q] = "done"]
    /\ UNCHANGED <<cache, cacheMtx, update, cachedStats, notCache>>

\* The ledger and the payFee handlers at rest.
PayFeeIdle ==
    /\ db = TicketRecord(1, NoFee, FALSE)
    /\ pc = [r \in Reqs |-> "idle"]
    /\ ctxTicket = [r \in Reqs |-> ZeroTicket]
    /\ ticket = [r \in Reqs |-> ZeroTicket]
    /\ request = [r \in Reqs |-> NoSubmission]
    /\ checked = [r \in Reqs |-> <<>>]
    /\ calls = [r \in Reqs |-> <<>>]
    /\ resp = [r \in Reqs |-> <<>>]
    /\ broadcasts = 0
    /\ voteChanges = <<>>

VspInfoInit == PayFeeIdle /\ CacheInit /\ AdminIdle /\ WalletsIdle

\* vspinfo requests served while the single writer republishes the cache.
VspInfoNext ==
    \/ updateLock
    \/ updateField
    \/ updateUnlock
    \/ \E q \in Readers : getData(q)
    \/ \E q \in Readers : vspInfo(q)

VspInfoSpec == VspInfoInit /\ [][VspInfoNext]_vars

\* ------------------------------------------------------------ vspadmin
\* A createdatabase that does not look for an existing database.
createDatabaseOverwrites(feeXPub, statErr, mkdirOK, created) ==
    /\ UNCHANGED notAdmin
    /\ LET cmd == "createdatabase"
               keyErr == validatePubkey(feeXPub)
           IN  IF keyErr # Nil
               THEN /\ files' = files
                    /\ admin' = Run(cmd, feeXPub, <<"validatePubkey">>, keyErr)
               ELSE IF ~mkdirOK
               THEN /\ files' = files
                    /\ admin' = Run(cmd, feeXPub, <<"validatePubkey", "MkdirAll">>,
                                    "failed to create data directory")
               ELSE IF created # "ok"
               THEN /\ files' = [files EXCEPT !.homeDir = TRUE, !.dataDir = TRUE,
                                              !.dbFile = IF created = Partial THEN PartialDatabase ELSE @]
                    /\ admin' = Run(cmd, feeXPub, <<"validatePubkey", "MkdirAll", "CreateNew">>,
                                    "error creating db file")
               ELSE /\ files' = [files EXCEPT !.homeDir = TRUE, !.dataDir = TRUE,
                                              !.dbFile = Database(feeXPub, {})]
                    /\ admin' = Run(cmd, feeXPub, <<"validatePubkey", "MkdirAll", "CreateNew">>, Nil)

\* createDatabase: refuses an existing database, validates the key, makes
\* the data directory and creates the database with the key.  A failed
\* database.CreateNew may leave a file behind.
createDatabase(feeXPub, statErr, mkdirOK, created) ==
    /\ UNCHANGED notAdmin
    /\ LET cmd == "createdatabase"
               keyErr == validatePubkey(feeXPub)
           IN  IF fileExists(files.dbFile # NoDatabase, statErr)
               THEN /\ files' = files
                    /\ admin' = Run(cmd, feeXPub, <<"fileExists">>, "database already exists")
               ELSE IF keyErr # Nil
               THEN /\ files' = files
                    /\ admin' = Run(cmd, feeXPub, <<"fileExists", "validatePubkey">>, keyErr)
               ELSE IF ~mkdirOK
               THEN /\ files' = files
                    /\ admin' = Run(cmd, feeXPub, <<"fileExists", "validatePubkey", "MkdirAll">>,
                                    "failed to create data directory")
               ELSE IF created # "ok"
               THEN /\ files' = [files EXCEPT !.homeDir = TRUE, !.dataDir = TRUE,
                                              !.dbFile = IF created = Partial THEN PartialDatabase ELSE @]
                    /\ admin' = Run(cmd, feeXPub,
                                    <<"fileExists", "validatePubkey", "MkdirAll", "CreateNew">>,
                                    "error creating db file")
               ELSE /\ files' = [files EXCEPT !.homeDir = TRUE, !.dataDir = TRUE,
                                              !.dbFile = Database(feeXPub, {})]
                    /\ admin' = Run(cmd, feeXPub,
                                    <<"fileExists", "validatePubkey", "MkdirAll", "CreateNew">>, Nil)

\* writeConfig: refuses an existing config file, makes the home directory
\* and writes the default config.  A failed write may leave a file behind.
writeConfig(statErr, mkdirOK, written) ==
    /\ UNCHANGED notAdmin
    /\ LET cmd == "writeconfig"
           IN  IF fileExists(files.configFile # Absent, statErr)
               THEN /\ files' = files
                    /\ admin' = Run(cmd, "", <<"fileExists">>, "config file already exists")
               ELSE IF ~mkdirOK
               THEN /\ files' = files
                    /\ admin' = Run(cmd, "", <<"fileExists", "MkdirAll">>,
                                    "failed to create directory")
               ELSE IF written # "ok"
               THEN /\ files' = [files EXCEPT !.homeDir = TRUE,
                                              !.configFile = IF written = Partial THEN Partial ELSE @]
                    /\ admin' = Run(cmd, "", <<"fileExists", "MkdirAll", "WriteFile">>,
                                    "failed to create config file")
               ELSE /\ files' = [files EXCEPT !.homeDir = TRUE, !.configFile = "defaults"]
                    /\ admin' = Run(cmd, "", <<"fileExists", "MkdirAll", "WriteFile">>, Nil)

\* database.Open opens a database file that is there and whole.
CanOpen(file) == file \in Databases
\* db.RetireXPub retires the key in use for a key not used before.
CanRetire(file, feeXPub) == feeXPub # file.feeXPub /\ feeXPub \notin file.retired

\* A retirexpub that opens the database before it validates the key.
retireXPubOpensFirst(feeXPub, openOK, retireOK) ==
    /\ UNCHANGED notAdmin
    /\ LET cmd == "retirexpub"
           keyErr == validatePubkey(feeXPub)
       IN  IF ~(openOK /\ CanOpen(files.dbFile))
           THEN /\ files' = files
                /\ admin' = Run(cmd, feeXPub, <<"Open">>, "error opening db file")
           ELSE IF keyErr # Nil
           THEN /\ files' = files
                /\ admin' = Run(cmd, feeXPub, <<"Open", "validatePubkey">>, keyErr)
           ELSE IF ~(retireOK /\ CanRetire(files.dbFile, feeXPub))
           THEN /\ files' = files
                /\ admin' = Run(cmd, feeXPub, <<"Open", "validatePubkey", "RetireXPub">>,
                                "db.RetireXPub failed")
           ELSE /\ files' = [files EXCEPT !.dbFile =
                                 Database(feeXPub, @.retired \cup {@.feeXPub})]
                /\ admin' = Run(cmd, feeXPub, <<"Open", "validatePubkey", "RetireXPub">>, Nil)

\* retireXPub: validates the key, opens the database and retires the key in
\* use in favour of the key given.
retireXPub(feeXPub, openOK, retireOK) ==
    /\ UNCHANGED notAdmin
    /\ LET cmd == "retirexpub"
               keyErr == validatePubkey(feeXPub)
           IN  IF keyErr # Nil
               THEN /\ files' = files
                    /\ admin' = Run(cmd, feeXPub, <<"validatePubkey">>, keyErr)
               ELSE IF ~(openOK /\ CanOpen(files.dbFile))
               THEN /\ files' = files
                    /\ admin' = Run(cmd, feeXPub, <<"validatePubkey", "Open">>,
                                    "error opening db file")
               ELSE IF ~(retireOK /\ CanRetire(files.dbFile, feeXPub))
               THEN /\ files' = files
                    /\ admin' = Run(cmd, feeXPub, <<"validatePubkey", "Open", "RetireXPub">>,
                                    "db.RetireXPub failed")
               ELSE /\ files' = [files EXCEPT !.dbFile =
                                     Database(feeXPub, @.retired \cup {@.feeXPub})]
                    /\ admin' = Run(cmd, feeXPub, <<"validatePubkey", "Open", "RetireXPub">>, Nil)

\* Any home directory, before vspadmin runs.
AdminInit ==
    /\ PayFeeIdle
    /\ CacheInit
    /\ WalletsIdle
    /\ files \in FileSystems
    /\ admin = NoRun

StatErrs == {Nil, "permission denied"}
WriteResults == {"ok", "error", Partial}

\* Runs of vspadmin, one after another.
AdminNext ==
    \/ \E key \in FeeKeys, statErr \in StatErrs, mkdirOK \in BOOLEAN,
          created \in WriteResults :
            createDatabase(key, statErr, mkdirOK, created)
    \/ \E statErr \in StatErrs, mkdirOK \in BOOLEAN, written \in WriteResults :
            writeConfig(statErr, mkdirOK, written)
    \/ \E key \in FeeKeys, openOK \in BOOLEAN, retireOK \in BOOLEAN :
            retireXPub(key, openOK, retireOK)

AdminSpec == AdminInit /\ [][AdminNext]_vars

\* ------------------------------------------------- the replica coordinator
\* reconcileAll starts: it will push the ledger's configuration of every
\* active ticket to every wallet.
reconcileAll ==
    /\ reconciler.state # "running"
    /\ reconciler' = Reconciler("running", Pushes(ledger), {},
                                reconciler.missed \cup reconciler.skipped)
    /\ UNCHANGED <<ledger, replicas, reachable, notWallets>>

\* A coordinator that overwrites only a wallet reporting the configuration
\* "cfgA" and takes any other report as up to date.
pushReplicaIfDefault ==
    /\ reconciler.state = "running"
    /\ reconciler.todo # <<>>
    /\ LET t == Head(reconciler.todo)[1]
           w == Head(reconciler.todo)[2]
       IN  IF reachable[w]
           THEN /\ replicas' = [replicas EXCEPT ![w][t] =
                                  IF @ = "cfgA" THEN ledger[t].config ELSE @]
                /\ reconciler' = [reconciler EXCEPT !.todo = Tail(@)]
           ELSE /\ replicas' = replicas
                /\ reconciler' = [reconciler EXCEPT !.todo = Tail(@),
                                                    !.skipped = @ \cup {w}]
    /\ UNCHANGED <<ledger, reachable, notWallets>>

\* One push of reconcileAll: a wallet that answers takes the ledger's
\* configuration of the ticket whole; a wallet that does not is skipped.
pushReplica ==
    /\ reconciler.state = "running"
    /\ reconciler.todo # <<>>
    /\ LET t == Head(reconciler.todo)[1]
           w == Head(reconciler.todo)[2]
       IN  IF reachable[w]
           THEN /\ replicas' = [replicas EXCEPT ![w][t] = ledger[t].config]
                /\ reconciler' = [reconciler EXCEPT !.todo = Tail(@)]
           ELSE /\ replicas' = replicas
                /\ reconciler' = [reconciler EXCEPT !.todo = Tail(@),
                                                    !.skipped = @ \cup {w}]
    /\ UNCHANGED <<ledger, reachable, notWallets>>

\* reconcileAll returns after its last push.
reconcileAllDone ==
    /\ reconciler.state = "running"
    /\ reconciler.todo = <<>>
    /\ reconciler' = [reconciler EXCEPT !.state = "done"]
    /\ UNCHANGED <<ledger, replicas, reachable, notWallets>>

\* A wallet goes away or comes back, at any time.
setReachable(w) ==
    /\ reachable' = [reachable EXCEPT ![w] = ~@]
    /\ UNCHANGED <<ledger, replicas, reconciler, notWallets>>

\* Any ledger, wallets reporting anything, answering or not.
WalletsInit ==
    /\ PayFeeIdle
    /\ CacheInit
    /\ AdminIdle
    /\ ledger \in Ledgers
    /\ replicas \in [Wallets -> [Tickets -> Configs]]
    /\ reachable \in [Wallets -> BOOLEAN]
    /\ reconciler = Reconciler("idle", <<>>, {}, {})

WalletsNext ==
    \/ reconcileAll
    \/ pushReplica
    \/ reconcileAllDone
    \/ \E w \in Wallets : setReachable(w)

WalletsSpec == WalletsInit /\ [][WalletsNext]_vars

\* ------------------------------------------------------------ properties
Sent(r, code) == \E i \in 1..Len(resp[r]) : resp[r][i].code = code
Called(r, call) == \E i \in 1..Len(calls[r]) : calls[r][i].call = call
\* The results of r's calls of `call`, in order.
Results(r, call) ==
    LET IsCall(c) == c.call = call
        made == SelectSeq(calls[r], IsCall)
    IN  [i \in 1..Len(made) |-> made[i].result]
Rejections(r) == { i \in 1..Len(resp[r]) : resp[r][i].code # StatusOK }

\* The edges of the FeeTxStatus lifecycle as the specification draws it.
Pending == "pending"
LifecycleEdges ==
    { <<NoFee, Pending>>, <<Pending, FeeReceieved>>, <<FeeReceieved, FeeBroadcast>>,
      <<FeeReceieved, FeeError>>, <<FeeBroadcast, FeeConfirmed>>,
      <<FeeError, FeeConfirmed>>, <<FeeError, Pending>> }
\* The edges payFee takes.
PayFeeEdges ==
    { <<NoFee, FeeReceieved>>, <<FeeError, FeeReceieved>>,
      <<FeeReceieved, FeeBroadcast>>, <<FeeReceieved, FeeError>> }

C3_AtMostOneAccepted ==
    /\ Cardinality({ r \in Reqs : Sent(r, StatusOK) }) <= 1
    /\ broadcasts <= 1

\* The handler of r passed the validation and went on to the ledger write.
Passed(r) == pc[r] = "UpdateTicketReceived" \/ Called(r, "UpdateTicket")
\* The handler of r has ended with the error `code` as its only response and
\* without a call to the ledger, to the chain daemon's broadcast or to the
\* audit log.
RejectedWith(r, code) ==
    /\ pc[r] = "done"
    /\ Len(resp[r]) = 1 /\ resp[r][1].code = code
    /\ ~Called(r, "UpdateTicket")
    /\ ~Called(r, "SendRawTransaction")
    /\ ~Called(r, "SaveVoteChange")
FeePaidStatuses == {FeeReceieved, FeeBroadcast, FeeConfirmed}

\* C2 as stated: a payFee request for a ticket whose FeeTxStatus is Received,
\* Broadcast or Confirmed is answered with "fee already received", and the
\* handler makes no chain daemon call, no ledger write, no broadcast and no
\* audit write.
C2_AlreadyPaidAnswered ==
    \A r \in Reqs :
        (pc[r] # "idle" /\ ctxTicket[r].FeeTxStatus \in FeePaidStatuses)
            => /\ RejectedWith(r, ErrFeeAlreadyReceived)
               /\ calls[r] = <<>>
               /\ db = ctxTicket[r] /\ broadcasts = 0 /\ voteChanges = <<>>

\* C2 amended: the same for a request whose body binds and for which the
\* middleware obtained the chain daemon client.
C2_AlreadyPaidIdempotent ==
    \A r \in Reqs :
        (/\ pc[r] # "idle"
         /\ ctxTicket[r].FeeTxStatus \in FeePaidStatuses
         /\ ~request[r].dcrdErr /\ request[r].bindOK)
            => /\ RejectedWith(r, ErrFeeAlreadyReceived)
               /\ calls[r] = <<>>
               /\ db = ctxTicket[r] /\ broadcasts = 0 /\ voteChanges = <<>>

\* A well-formed resubmission for a ticket whose fee was broadcast.
C2_Witness ==
    \E r \in Reqs :
        /\ pc[r] = "done"
        /\ ctxTicket[r].FeeTxStatus = FeeBroadcast
        /\ ~request[r].dcrdErr /\ request[r].bindOK
        /\ request[r].FeeTx = ExactTx(db.FeeAmount) /\ request[r].VotingKey = "k1"
        /\ Sent(r, ErrFeeAlreadyReceived)

\* The order of the checks as the specification lists it (the decode and the
\* sanity check of the fee transaction are its sixth step), with the
\* rejection each one sends.
ListedChecks ==
    << "feeAlreadyReceived", "GetRawTransaction", "canTicketVote", "FeeExpired",
       "DecodeWIF", "decodeFeeTx", "CheckTransactionSanity", "feeFound", "feeAmount",
       "votingAddress" >>
ListedRejection ==
    << ErrFeeAlreadyReceived, ErrInternalError, ErrTicketCannotVote, ErrFeeExpired,
       ErrInvalidPrivKey, ErrInvalidFeeTx, ErrInvalidFeeTx, ErrInvalidFeeTx,
       ErrFeeTooSmall, ErrInvalidPrivKey >>
\* Whether the check called `name` fails on ticket t and submission in,
\* whatever its place in the handler.
FailsCheck(name, t, in) ==
    \E i \in 1..Len(Pipeline(t, in)) :
        Pipeline(t, in)[i].check = name /\ Pipeline(t, in)[i].fails
FailingListed(t, in) == { i \in 1..Len(ListedChecks) : FailsCheck(ListedChecks[i], t, in) }
EarliestListed(t, in) ==
    CHOOSE i \in FailingListed(t, in) : \A j \in FailingListed(t, in) : i <= j
\* The checks the specification's list leaves out, each with the listed
\* check (by its place in the list) that the handler makes next after it.
UnlistedChecks ==
    {"dcrdErr", "knownTicket", "BindBody", "canTicketVoteErr", "DecodeAddress",
     "NewAddressPubKeyHash", "decodeTicket"}
NextListed(u) ==
    CASE u \in {"dcrdErr", "knownTicket", "BindBody"} -> 1
      [] u = "canTicketVoteErr" -> 3
      [] u = "DecodeAddress" -> 8
      [] u \in {"NewAddressPubKeyHash", "decodeTicket"} -> 10
\* No unlisted check that the handler makes before listed check e fails.
NoneUnlistedBefore(e, t, in) ==
    \A u \in UnlistedChecks : FailsCheck(u, t, in) => NextListed(u) > e
Made(r, name) == \E i \in 1..Len(checked[r]) : checked[r][i] = name
LastMade(r) == checked[r][Len(checked[r])]

\* C4 as stated: when a request fails several checks the response is the
\* rejection of the earliest failing one in the listed order, and no check
\* after it is made.
C4_EarliestListedRejects ==
    \A r \in Reqs :
        (pc[r] # "idle" /\ FailingListed(ctxTicket[r], request[r]) # {})
            => LET e == EarliestListed(ctxTicket[r], request[r])
               IN  /\ resp[r][1].code = ListedRejection[e]
                   /\ LastMade(r) = ListedChecks[e]

\* C4 amended: the same when no check outside the list (the context values,
\* the unknown ticket, the body binding, an error of canTicketVote, of the
\* fee address, of the voting address or of the ticket decoding) fails
\* before the earliest failing listed check; and in every case no listed
\* check after the earliest failing listed check is made.
C4_OrderedShortCircuit ==
    \A r \in Reqs :
        (pc[r] # "idle" /\ FailingListed(ctxTicket[r], request[r]) # {})
            => LET e == EarliestListed(ctxTicket[r], request[r])
               IN  /\ NoneUnlistedBefore(e, ctxTicket[r], request[r])
                        => /\ RejectedWith(r, ListedRejection[e])
                           /\ LastMade(r) = ListedChecks[e]
                   /\ \A j \in (e + 1)..Len(ListedChecks) : ~Made(r, ListedChecks[j])

\* A request past its fee deadline whose voting key does not decode either:
\* it is answered with the expiry.
C4_Witness ==
    \E r \in Reqs :
        /\ pc[r] = "done"
        /\ {4, 5} \subseteq FailingListed(ctxTicket[r], request[r])
        /\ EarliestListed(ctxTicket[r], request[r]) = 4
        /\ Sent(r, ErrFeeExpired)

\* The value of the first output of the fee transaction that pays the
\* ticket's fee script with the right script version; 0 when there is none.
MatchingOutputs(t, in) ==
    { i \in 1..Len(in.FeeTx.TxOut) :
        /\ in.FeeTx.TxOut[i].Version = PaymentScript(t.FeeAddress).Version
        /\ in.FeeTx.TxOut[i].PkScript = PaymentScript(t.FeeAddress).PkScript }
MatchedValue(t, in) ==
    IF MatchingOutputs(t, in) = {} THEN 0
    ELSE in.FeeTx.TxOut[CHOOSE i \in MatchingOutputs(t, in) :
                            \A j \in MatchingOutputs(t, in) : i <= j].Value
\* Every check but the fee amount passes.
OtherChecksPass(t, in) ==
    /\ ~in.dcrdErr /\ in.knownTicket /\ in.bindOK
    /\ t.FeeTxStatus \notin FeePaidStatuses
    /\ in.rawOK /\ in.canVote = "yes" /\ ~in.feeExpired
    /\ in.VotingKey # NotWIF
    /\ in.FeeTx.hex /\ in.FeeTx.sane /\ in.feeAddrOK
    /\ MatchedValue(t, in) # 0
    /\ in.wifAddrOK /\ in.ticketHexOK
    /\ TicketOut0(in) = VotingRightsScript(in.VotingKey)

\* C5: with all other checks passing, the submission is accepted iff the
\* matched output pays at least the ticket's FeeAmount; one atom less is
\* rejected with "fee too small".
C5_FeeBoundary ==
    \A r \in Reqs :
        (pc[r] # "idle" /\ OtherChecksPass(ctxTicket[r], request[r]))
            => LET paid == MatchedValue(ctxTicket[r], request[r])
               IN  /\ paid >= ctxTicket[r].FeeAmount => Passed(r)
                   /\ paid < ctxTicket[r].FeeAmount => RejectedWith(r, ErrFeeTooSmall)

\* A submission paying exactly the minimum fee (more than one atom) that is
\* accepted and answered with the success response.
C5_Witness ==
    \E r \in Reqs :
        /\ pc[r] # "idle"
        /\ OtherChecksPass(ctxTicket[r], request[r])
        /\ MatchedValue(ctxTicket[r], request[r]) = ctxTicket[r].FeeAmount
        /\ ctxTicket[r].FeeAmount > 1
        /\ Sent(r, StatusOK)

\* The voting key of the submission decodes, and the voting rights script it
\* gives differs, in script or in script version, from output 0 of the
\* ticket transaction.
KeyMismatch(in) ==
    /\ in.VotingKey # NotWIF
    /\ TicketOut0(in) # VotingRightsScript(in.VotingKey)

\* C6: a request whose voting key decodes but does not match the ticket's
\* voting rights output is always rejected, whatever its fee transaction
\* pays, and the handler leaves the ticket's record in the ledger as it was.
C6_MismatchRejected ==
    \A r \in Reqs :
        (pc[r] # "idle" /\ KeyMismatch(request[r]))
            => /\ pc[r] = "done"
               /\ Len(resp[r]) = 1 /\ resp[r][1].code # StatusOK
               /\ ~Called(r, "UpdateTicket")
               /\ request[r].knownTicket
                    => /\ db.VotingWIF = ctxTicket[r].VotingWIF
                       /\ db.FeeTxHex = ctxTicket[r].FeeTxHex
                       /\ db.FeeTxHash = ctxTicket[r].FeeTxHash
                       /\ db.FeeTxStatus = ctxTicket[r].FeeTxStatus

\* A request with the voting key of another ticket and a fee transaction
\* paying the fee, rejected at the comparison of the voting address.
C6_Witness ==
    \E r \in Reqs :
        /\ pc[r] = "done"
        /\ KeyMismatch(request[r])
        /\ request[r].FeeTx = ExactTx(db.FeeAmount)
        /\ LastMade(r) = "votingAddress"
        /\ Sent(r, ErrInvalidPrivKey)

\* Every check of the validation passes.
AllChecksPass(t, in) ==
    OtherChecksPass(t, in) /\ MatchedValue(t, in) >= t.FeeAmount

\* C7: a step that ends the handler at the validation (any rejection before
\* the persist step) leaves the ledger as it was, and the ledger changes
\* only by a handler whose submission passed every check.
C7_NoMutationOnRejection ==
    [][/\ \A r \in Reqs : (pc[r] = "idle" /\ pc'[r] = "done") => db' = db
       /\ db' # db
            => \E r \in Reqs :
                   /\ pc[r] # "idle"
                   /\ AllChecksPass(ctxTicket[r], request[r])
                   /\ db' = ticket[r]]_vars

\* A request rejected because its voting key does not match, with the
\* ticket's record in the ledger as the handler read it.
C7_Witness ==
    \E r \in Reqs :
        /\ pc[r] = "done"
        /\ LastMade(r) = "votingAddress"
        /\ Sent(r, ErrInvalidPrivKey)
        /\ db = ctxTicket[r]
        /\ db.VotingWIF # request[r].VotingKey

\* The broadcast call of r returned without an error.
BroadcastSucceeded(r) == Results(r, "SendRawTransaction") = <<"ok">>
BroadcastFailed(r) ==
    /\ Called(r, "SendRawTransaction")
    /\ Results(r, "SendRawTransaction") # <<"ok">>

\* C8 as stated: for a chain-confirmed ticket whose request passes every
\* check and whose broadcast call succeeds, payFee ends with the persisted
\* FeeTxStatus Broadcast and the success response echoing the request bytes.
C8_BroadcastEndsInSuccess ==
    \A r \in Reqs :
        (/\ pc[r] = "done"
         /\ ctxTicket[r].Confirmed
         /\ AllChecksPass(ctxTicket[r], request[r])
         /\ BroadcastSucceeded(r))
            => /\ db.FeeTxStatus = FeeBroadcast
               /\ resp[r] = << PayFeeResponse(request[r]) >>

\* C8 amended: the same when the ledger write after the broadcast succeeds
\* too: the handler's last ledger write stores FeeTxStatus Broadcast and its
\* only response is the success response echoing the request bytes.
C8_BroadcastAndWriteEndInSuccess ==
    \A r \in Reqs :
        (/\ pc[r] = "done"
         /\ ctxTicket[r].Confirmed
         /\ AllChecksPass(ctxTicket[r], request[r])
         /\ BroadcastSucceeded(r)
         /\ Results(r, "UpdateTicket") = <<"ok", "ok">>)
            => /\ db.FeeTxStatus = FeeBroadcast
               /\ db = [SetFeeTx(ctxTicket[r], request[r]) EXCEPT !.FeeTxStatus = FeeBroadcast]
               /\ resp[r] = << PayFeeResponse(request[r]) >>
               /\ resp[r][1].Request = << reqBytes(request[r]) >>

\* A confirmed ticket, a valid request, a broadcast and two ledger writes
\* that succeeded.
C8_Witness ==
    \E r \in Reqs :
        /\ pc[r] = "done"
        /\ ctxTicket[r].Confirmed
        /\ AllChecksPass(ctxTicket[r], request[r])
        /\ BroadcastSucceeded(r)
        /\ Results(r, "UpdateTicket") = <<"ok", "ok">>
        /\ db.FeeTxStatus = FeeBroadcast
        /\ Sent(r, StatusOK)

\* The error code the specification gives for the class of a broadcast error.
BroadcastFailureCode(r) ==
    IF Results(r, "SendRawTransaction") = <<ErrUnknownOutputs>>
    THEN ErrCannotBroadcastFeeUnknownOutputs
    ELSE ErrCannotBroadcastFee

\* C9 as stated: whenever the broadcast call fails, FeeTxStatus Error is
\* persisted, the client gets the "unknown outputs" code for an error of
\* that class and the generic code otherwise, and neither a success response
\* nor an audit record follows.
C9_BroadcastFailurePersisted ==
    \A r \in Reqs :
        (pc[r] = "done" /\ BroadcastFailed(r))
            => /\ db.FeeTxStatus = FeeError
               /\ resp[r] = << ErrorResponse(BroadcastFailureCode(r), <<>>) >>
               /\ ~Called(r, "SaveVoteChange")
               /\ voteChanges = <<>>

\* C9 amended: whenever the broadcast call fails the client gets the code of
\* the error's class, neither a success response nor an audit record
\* follows, and the handler writes FeeTxStatus Error to the ledger: Error is
\* persisted when that write succeeds, and Received stays when it fails.
C9_BroadcastFailureWritten ==
    \A r \in Reqs :
        (pc[r] = "done" /\ BroadcastFailed(r))
            => /\ resp[r] = << ErrorResponse(BroadcastFailureCode(r), <<>>) >>
               /\ ~Called(r, "SaveVoteChange")
               /\ voteChanges = <<>>
               /\ Len(Results(r, "UpdateTicket")) = 2
               /\ Results(r, "UpdateTicket")[2] = "ok" => db.FeeTxStatus = FeeError
               /\ Results(r, "UpdateTicket")[2] # "ok" => db.FeeTxStatus = FeeReceieved

\* A broadcast that failed with unknown outputs, answered with that code,
\* with Error persisted.
C9_Witness ==
    \E r \in Reqs :
        /\ pc[r] = "done"
        /\ Results(r, "SendRawTransaction") = <<ErrUnknownOutputs>>
        /\ Sent(r, ErrCannotBroadcastFeeUnknownOutputs)
        /\ db.FeeTxStatus = FeeError

\* C10: an invalid preference map never rejects the request; each map is
\* stored iff that map alone is valid, and an invalid map leaves the value
\* the ticket had.
C10_MapsIndependent ==
    \A r \in Reqs :
        (pc[r] # "idle" /\ AllChecksPass(ctxTicket[r], request[r]))
            => /\ Passed(r)
               /\ (Len(Results(r, "UpdateTicket")) >= 1 /\ Results(r, "UpdateTicket")[1] = "ok")
                    => /\ db.VoteChoices = IF request[r].vcErr
                                           THEN ctxTicket[r].VoteChoices
                                           ELSE request[r].VoteChoices
                       /\ db.TreasuryPolicy = IF request[r].trErr
                                              THEN ctxTicket[r].TreasuryPolicy
                                              ELSE request[r].TreasuryPolicy
                       /\ db.TSpendPolicy = IF request[r].tsErr
                                            THEN ctxTicket[r].TSpendPolicy
                                            ELSE request[r].TSpendPolicy

\* A request with invalid vote choices and valid policies that succeeded:
\* the ticket keeps its vote choices and has the new policies.
C10_Witness ==
    \E r \in Reqs :
        /\ pc[r] = "done"
        /\ request[r].vcErr /\ ~request[r].trErr /\ ~request[r].tsErr
        /\ Sent(r, StatusOK)
        /\ db.VoteChoices = "vc0"
        /\ db.TreasuryPolicy = "trReq" /\ db.TSpendPolicy = "tsReq"

\* C11: SaveVoteChange is called only after the success response was sent,
\* and the step that calls it, failing or not, leaves the responses sent and
\* the ticket's record in the ledger as they were.
C11_AuditAfterResponse ==
    [][\A r \in Reqs :
          /\ (~Called(r, "SaveVoteChange") /\ Called(r, "SaveVoteChange")')
                => /\ resp[r] = << PayFeeResponse(request[r]) >>
                   /\ resp' = resp
                   /\ db' = db
          /\ Called(r, "SaveVoteChange") => (resp' = resp /\ db' = db)]_vars

\* An audit write that failed after the success response, with the response
\* and the stored ticket as they were before it.
C11_Witness ==
    \E r \in Reqs :
        /\ pc[r] = "done"
        /\ Results(r, "SaveVoteChange") = <<"error">>
        /\ resp[r] = << PayFeeResponse(request[r]) >>
        /\ voteChanges = <<>>
        /\ db = ticket[r]

\* The first ledger write of r (FeeTxStatus Received) returned res.
FirstWrite(r, res) ==
    /\ Results(r, "UpdateTicket") # <<>>
    /\ Results(r, "UpdateTicket")[1] = res

\* C15: the fee transaction is broadcast only after the ledger write that
\* stores FeeTxStatus Received has succeeded; when that write fails the
\* client gets the internal error and there is no broadcast call, no success
\* response and no audit record.
C15_PersistBeforeBroadcast ==
    \A r \in Reqs :
        /\ \A i \in 1..Len(calls[r]) :
              calls[r][i].call = "SendRawTransaction"
                 => \E j \in 1..(i - 1) : calls[r][j] = Call("UpdateTicket", "ok")
        /\ pc[r] = "SendRawTransaction"
              => /\ db.FeeTxStatus = FeeReceieved
                 /\ db.FeeTxHex = request[r].FeeTx
                 /\ db.VotingWIF = request[r].VotingKey
        /\ FirstWrite(r, "error")
              => /\ pc[r] = "done"
                 /\ resp[r] = << ErrorResponse(ErrInternalError, <<>>) >>
                 /\ ~Called(r, "SendRawTransaction")
                 /\ ~Called(r, "SaveVoteChange")
                 /\ broadcasts = 0
                 /\ voteChanges = <<>>

\* A valid request for a confirmed ticket whose first ledger write failed:
\* answered with the internal error, nothing broadcast.
C15_Witness ==
    \E r \in Reqs :
        /\ pc[r] = "done"
        /\ ctxTicket[r].Confirmed
        /\ FirstWrite(r, "error")
        /\ Sent(r, ErrInternalError)
        /\ broadcasts = 0

\* C16 as stated: whenever the broadcast of the fee transaction succeeded,
\* the ledger records FeeTxStatus Broadcast when the handler has returned,
\* also when a ledger write failed.
C16_BroadcastAlwaysRecorded ==
    \A r \in Reqs :
        (pc[r] = "done" /\ BroadcastSucceeded(r)) => db.FeeTxStatus = FeeBroadcast

\* C16 amended: after a successful broadcast the handler writes FeeTxStatus
\* Broadcast; the ledger records Broadcast when that write succeeded, and
\* when it failed the ledger still records Received and the client got the
\* internal error and no success response.
C16_BroadcastRecordedWhenWritten ==
    \A r \in Reqs :
        (pc[r] = "done" /\ BroadcastSucceeded(r))
            => /\ Len(Results(r, "UpdateTicket")) = 2
               /\ ticket[r].FeeTxStatus = FeeBroadcast
               /\ Results(r, "UpdateTicket")[2] = "ok" => db.FeeTxStatus = FeeBroadcast
               /\ Results(r, "UpdateTicket")[2] = "error"
                    => /\ db.FeeTxStatus = FeeReceieved
                       /\ resp[r] = << ErrorResponse(ErrInternalError, <<>>) >>
                       /\ ~Called(r, "SaveVoteChange")

\* A broadcast that succeeded and a write of Broadcast that failed: the
\* ledger records Received.
C16_Witness ==
    \E r \in Reqs :
        /\ pc[r] = "done"
        /\ BroadcastSucceeded(r)
        /\ Results(r, "UpdateTicket") = <<"ok", "error">>
        /\ db.FeeTxStatus = FeeReceieved
        /\ broadcasts = 1

\* The audit record of request r.
VoteChangeRecord(r) ==
    [Hash |-> ctxTicket[r].Hash,
     Request |-> reqBytes(request[r]),
     Response |-> PayFeeResponse(request[r])]

\* C17 as stated: for a ticket that is not confirmed a request passing
\* every check makes no broadcast call, leaves the persisted FeeTxStatus at
\* Received, gets the success response and has its audit record written.
C17_UnconfirmedEndsReceived ==
    \A r \in Reqs :
        (/\ pc[r] = "done"
         /\ ~ctxTicket[r].Confirmed
         /\ AllChecksPass(ctxTicket[r], request[r]))
            => /\ ~Called(r, "SendRawTransaction")
               /\ broadcasts = 0
               /\ db.FeeTxStatus = FeeReceieved
               /\ resp[r] = << PayFeeResponse(request[r]) >>
               /\ voteChanges = << VoteChangeRecord(r) >>

\* C17 amended: such a request never makes a broadcast call; when the
\* ledger write succeeds the persisted FeeTxStatus stays at Received, the
\* success response is sent and the audit write is made, and the audit
\* record is stored when that write succeeds.
C17_UnconfirmedNotBroadcast ==
    \A r \in Reqs :
        (/\ pc[r] = "done"
         /\ ~ctxTicket[r].Confirmed
         /\ AllChecksPass(ctxTicket[r], request[r]))
            => /\ ~Called(r, "SendRawTransaction")
               /\ broadcasts = 0
               /\ FirstWrite(r, "ok")
                    => /\ db.FeeTxStatus = FeeReceieved
                       /\ resp[r] = << PayFeeResponse(request[r]) >>
                       /\ Called(r, "SaveVoteChange")
                       /\ Results(r, "SaveVoteChange") = <<"ok">>
                            => voteChanges = << VoteChangeRecord(r) >>

\* A valid request for an unconfirmed ticket, stored, answered with the
\* success response and audited, with nothing broadcast.
C17_Witness ==
    \E r \in Reqs :
        /\ pc[r] = "done"
        /\ ~ctxTicket[r].Confirmed
        /\ AllChecksPass(ctxTicket[r], request[r])
        /\ db.FeeTxStatus = FeeReceieved
        /\ Sent(r, StatusOK)
        /\ voteChanges = << VoteChangeRecord(r) >>
        /\ broadcasts = 0

\* Every check before the scan of the fee transaction's outputs passes.
ReachesFeeScan(t, in) ==
    /\ ~in.dcrdErr /\ in.knownTicket /\ in.bindOK
    /\ t.FeeTxStatus \notin FeePaidStatuses
    /\ in.rawOK /\ in.canVote = "yes" /\ ~in.feeExpired
    /\ in.VotingKey # NotWIF
    /\ in.FeeTx.hex /\ in.FeeTx.sane /\ in.feeAddrOK

\* The rejection for a fee transaction without a payment to the fee address.
NoPaymentResponse(t) ==
    ErrorResponse(ErrInvalidFeeTx,
                  <<"feetx did not include any payments for fee address", t.FeeAddress>>)

\* C18 as stated: a request that reaches the scan passes the 'payment found'
\* step iff some output of the fee transaction has exactly the fee script and
\* its version; otherwise it is rejected as an invalid fee transaction with a
\* message naming the fee address.
C18_FoundIffSomeOutputMatches ==
    \A r \in Reqs :
        (pc[r] # "idle" /\ ReachesFeeScan(ctxTicket[r], request[r]))
            => /\ MatchingOutputs(ctxTicket[r], request[r]) # {}
                    <=> (Made(r, "feeFound") /\ LastMade(r) # "feeFound")
               /\ MatchingOutputs(ctxTicket[r], request[r]) = {}
                    <=> resp[r] = << NoPaymentResponse(ctxTicket[r]) >>

\* C18 amended: the step passes iff some output has exactly the fee script
\* and its version and the first such output has a value other than zero;
\* an output with the script under another version never counts; otherwise
\* the request is rejected as an invalid fee transaction with a message
\* naming the fee address; the amount compared with the minimum fee is the
\* value of the first matching output.
C18_FoundIffFirstMatchPays ==
    \A r \in Reqs :
        (pc[r] # "idle" /\ ReachesFeeScan(ctxTicket[r], request[r]))
            => LET t == ctxTicket[r]
                   found == /\ MatchingOutputs(t, request[r]) # {}
                            /\ MatchedValue(t, request[r]) # 0
               IN  /\ Made(r, "feeFound")
                   /\ found <=> LastMade(r) # "feeFound"
                   /\ ~found <=> resp[r] = << NoPaymentResponse(t) >>
                   /\ found => /\ Made(r, "feeAmount")
                               /\ MatchedValue(t, request[r]) < t.FeeAmount
                                    <=> RejectedWith(r, ErrFeeTooSmall)

\* A fee transaction whose only output with the fee script has another
\* script version and pays the fee: rejected for having no payment.
C18_Witness ==
    \E r \in Reqs :
        /\ pc[r] = "done"
        /\ ReachesFeeScan(ctxTicket[r], request[r])
        /\ MatchingOutputs(ctxTicket[r], request[r]) = {}
        /\ \E i \in 1..Len(request[r].FeeTx.TxOut) :
              /\ request[r].FeeTx.TxOut[i].PkScript = PaymentScript(FeeAddress).PkScript
              /\ request[r].FeeTx.TxOut[i].Version # PaymentScript(FeeAddress).Version
              /\ request[r].FeeTx.TxOut[i].Value >= ctxTicket[r].FeeAmount
        /\ resp[r] = << NoPaymentResponse(ctxTicket[r]) >>

\* The requests whose audit write succeeded.
Audited == { r \in Reqs : Results(r, "SaveVoteChange") = <<"ok">> }

\* C19: every audit record belongs to a request that got the success
\* response and no rejection, holds that request's bytes and the response
\* sent, and there is at most one record per such request; a rejected
\* request leaves none.
C19_AuditOnlyOnSuccess ==
    /\ Len(voteChanges) = Cardinality(Audited)
    /\ \A i \in 1..Len(voteChanges) :
          \E r \in Audited : voteChanges[i] = VoteChangeRecord(r)
    /\ \A r \in Reqs :
          /\ Called(r, "SaveVoteChange")
                => /\ resp[r] = << PayFeeResponse(request[r]) >>
                   /\ Len(Results(r, "SaveVoteChange")) = 1
          /\ Rejections(r) # {} => ~Called(r, "SaveVoteChange")
    /\ (\A r \in Reqs : Rejections(r) # {}) => voteChanges = <<>>

\* A request rejected after a failed broadcast, without an audit record.
C19_Witness ==
    \E r \in Reqs :
        /\ pc[r] = "done"
        /\ BroadcastFailed(r)
        /\ Rejections(r) # {}
        /\ voteChanges = <<>>

\* C20: a handler that has returned has sent exactly one response, and no
\* handler ever sends two.
C20_ExactlyOneResponse ==
    \A r \in Reqs :
        /\ Len(resp[r]) <= 1
        /\ pc[r] = "done" => Len(resp[r]) = 1
        /\ pc[r] \in {"idle", "UpdateTicketReceived", "SendRawTransaction",
                      "UpdateTicketBroadcast", "sendJSONResponse"}
              => resp[r] = <<>>

\* The broadcast failure path with a failed write of FeeError: one response.
C20_Witness ==
    \E r \in Reqs :
        /\ pc[r] = "done"
        /\ BroadcastFailed(r)
        /\ Results(r, "UpdateTicket") = <<"ok", "error">>
        /\ Len(resp[r]) = 1

\* The statistics fields of a vspinfo response.
ResponseStats(rsp) == [f \in DOMAIN CachedStats(0, 0) |-> rsp[f]]

\* C12: every vspinfo response has Revoked = Expired + Missed, and its
\* statistics fields are those of the one copy the handler took of the cache,
\* which is a snapshot the writer published whole, whatever the writer does
\* while the handler runs.
C12_SingleSnapshot ==
    \A q \in Readers :
        /\ infoPc[q] # "idle" => cachedStats[q] \in Snapshots
        /\ \A i \in 1..Len(infoResp[q]) :
              /\ infoResp[q][i].Revoked = infoResp[q][i].Expired + infoResp[q][i].Missed
              /\ ResponseStats(infoResp[q][i]) = cachedStats[q]
              /\ ResponseStats(infoResp[q][i]) \in Snapshots

\* A response sent while the writer was in the middle of publishing other
\* statistics: the cache holds a mix, the response the snapshot read before.
C12_Witness ==
    \E q \in Readers :
        /\ infoPc[q] = "done"
        /\ cacheMtx
        /\ cache \notin Snapshots
        /\ cachedStats[q] # CachedStats(0, 0)
        /\ ResponseStats(infoResp[q][1]) = cachedStats[q]
        /\ infoResp[q][1].Revoked = 2

\* The last run made the call.
AdminCalled(run, call) == \E i \in 1..Len(run.calls) : run.calls[i] = call

Converged(w) ==
    \A t \in Tickets : ledger[t].active => replicas[w][t] = ledger[t].config

\* C14: when reconcileAll has completed, every wallet it reached at each of
\* its pushes reports the ledger's configuration for every active ticket; a
\* push to a wallet that does not answer leaves that wallet as it was, and a
\* later reconcileAll that reaches the wallet corrects it; no step of the
\* coordinator changes the ledger.
C14_Convergence ==
    [][/\ reconciler'.state = "done"
            => \A w \in Wallets : w \notin reconciler'.skipped => Converged(w)'
       /\ \A w \in Wallets : ~reachable[w] => replicas'[w] = replicas[w]
       /\ ledger' = ledger]_vars

\* A wallet that an earlier reconcileAll skipped with a configuration other
\* than the ledger's, corrected by a later one that reached it; another
\* wallet skipped by that one and still diverging.
C14_Witness ==
    /\ reconciler.state = "done"
    /\ \E w \in Wallets :
          /\ w \in reconciler.missed
          /\ w \notin reconciler.skipped
          /\ Converged(w)
    /\ \E w \in Wallets :
          /\ w \in reconciler.skipped
          /\ ~Converged(w)
    /\ \E t \in Tickets : ledger[t].active /\ ledger[t].config = "cfgB"

\* The place of a call among the calls of a run, 0 when it was not made.
CallIndex(run, call) ==
    IF AdminCalled(run, call)
    THEN CHOOSE i \in 1..Len(run.calls) : run.calls[i] = call
    ELSE 0

====
